---- MODULE Spec2Model ----
(***************************************************************************)
(* Caller side of poli's process-isolation layer (objective_factory.py):   *)
(* the orchestrator create/start, the isolated-process launch with its     *)
(* SETUP handshake, and the ExternalBlackBox proxy (_black_box,            *)
(* __getattr__, terminate, __exit__, __del__), together with the persisted *)
(* registry store they read and the provisioning step of registry.py.      *)
(*                                                                         *)
(* A message is a sequence whose first element is the tag; the remaining   *)
(* elements are the payload fields, named by position ("p1", "p2", "p3"),  *)
(* so that the arity-sensitive unpacking of the Python code is modelled:   *)
(*   msg_type, *val = recv()     needs at least one element                *)
(*   e, traceback_ = val         needs exactly two payload fields          *)
(*   _, val = recv()             needs exactly two elements                *)
(* The peer (the child started by the run script) is an external           *)
(* collaborator of the caller: its replies are drawn from Replies and it   *)
(* may exit at any moment.                                                 *)
(***************************************************************************)
EXTENDS Integers, Sequences, FiniteSets, TLC

\* ------------------------------------------------------------------ bounds
\* number of proxy operations (calls, attribute accesses, teardowns) a
\* behaviour performs after creation
MaxOps == 2
\* largest number of payload fields of a reply
MaxPayload == 3
\* number of registry mutations (register, delete, provision) of a behaviour
MaxMuts == 3
\* largest number of rows of an input batch
MaxBatch == 2
\* number of requests the child runtime loop receives in a behaviour
MaxServe == 3

\* --------------------------------------------------------------- constants
None == "None"
_DEFAULT == "DEFAULT"
Absent == "absent"

\* problem names: one importable and provisionable, one provisionable only,
\* one known to nobody but the registry, and the reserved default section
Names == {"aloha", "foldx_sasa", "mine", _DEFAULT}
\* names that can have a section of their own in the store
SectionNames == Names \ {_DEFAULT}
AVAILABLE_PROBLEM_FACTORIES == {"aloha"}
AVAILABLE_OBJECTIVES == {"aloha", "foldx_sasa"}

Tags == {"SETUP", "QUERY", "ATTRIBUTE", "EXCEPTION", "OTHER"}
Fields == <<"p1", "p2", "p3", "p4">>
\* every reply the peer can put on the channel: a tag and 0..MaxPayload fields
Replies == { <<t>> \o SubSeq(Fields, 1, k) : t \in Tags, k \in 0..MaxPayload }

VARIABLES
    store,        \* persisted registry file: name -> Absent or a run script
    config,       \* registry.py's module-level config, loaded at import
    pc,           \* position of the caller thread
    req,          \* arguments of the create/start invocation
    f,            \* the black box handed to the caller
    pw,           \* the ProcessWrapper: constructed/closed bookkeeping
    peerAlive,    \* the child process is still running
    sent,         \* tags of the messages the caller put on the channel
    outstanding,  \* requests sent whose reply has not been consumed
    obs,          \* the observer's call counters
    result,       \* how the last caller operation ended
    hist,         \* history counters used to state the properties
    reg,          \* registry processes: raw store file, second process, writes
    ev,           \* one evaluation of a batch on both execution paths
    child         \* the child runtime loop of objective.py

vars == <<store, config, pc, req, f, pw, peerAlive, sent, outstanding, obs,
          result, hist, reg, ev, child>>

\* ------------------------------------------------------------ registry view
\* configparser: `name in config` is true for the default section too
InConfig(cfg, name) == name = _DEFAULT \/ cfg[name] # Absent
\* config.sections() never lists the default section
Sections(cfg) == { n \in SectionNames : cfg[n] # Absent }
\* config[name]["run_script_location"] exists
HasRunScript(cfg, name) ==
    name # _DEFAULT /\ cfg[name] \notin {Absent, "noscript", "duplicate"}

\* what input() can return to a confirmation prompt
Answers == {"y", "Y", "n"}

\* str.lower() on an answer
Lower(a) == IF a = "Y" THEN "y" ELSE a

\* variant of register_problem_op that makes the run script before it asks
register_problem_op_script_first(cfg, name, force, answer, mk, script) ==
    LET existing == name \in Sections(cfg)
        asked == existing /\ ~force
        added == IF existing THEN cfg ELSE [cfg EXCEPT ![name] = "noscript"]
        base == [cfg |-> cfg, write |-> FALSE, raised |-> FALSE,
                 error |-> None, warned |-> FALSE, asked |-> asked,
                 existing |-> existing, made |-> FALSE]
    IN  IF mk = "fail"
        THEN [base EXCEPT !.cfg = added, !.raised = TRUE,
                          !.error = "ScriptError", !.warned = asked]
        ELSE IF asked /\ Lower(answer) # "y"
        THEN [base EXCEPT !.cfg = [added EXCEPT ![name] = script],
                          !.warned = TRUE, !.made = TRUE]
        ELSE [base EXCEPT !.cfg = [added EXCEPT ![name] = script],
                          !.write = TRUE, !.warned = asked, !.made = TRUE]

\* variant of register_problem_op that fails when the overwrite is declined
register_problem_op_raises(cfg, name, force, answer, mk, script) ==
    LET existing == name \in Sections(cfg)
        asked == existing /\ ~force
        added == IF existing THEN cfg ELSE [cfg EXCEPT ![name] = "noscript"]
        base == [cfg |-> cfg, write |-> FALSE, raised |-> FALSE,
                 error |-> None, warned |-> FALSE, asked |-> asked,
                 existing |-> existing, made |-> FALSE]
    IN  IF asked /\ Lower(answer) # "y"
        THEN [base EXCEPT !.raised = TRUE, !.error = "AlreadyRegistered"]
        ELSE IF mk = "fail"
        THEN [base EXCEPT !.cfg = added, !.raised = TRUE,
                          !.error = "ScriptError", !.warned = asked]
        ELSE [base EXCEPT !.cfg = [added EXCEPT ![name] = script],
                          !.write = TRUE, !.warned = asked, !.made = TRUE]

\* variant of register_problem_op that leaves run_script_location unset
register_problem_op_no_location(cfg, name, force, answer, mk, script) ==
    LET existing == name \in Sections(cfg)
        asked == existing /\ ~force
        added == IF existing THEN cfg ELSE [cfg EXCEPT ![name] = "noscript"]
        base == [cfg |-> cfg, write |-> FALSE, raised |-> FALSE,
                 error |-> None, warned |-> FALSE, asked |-> asked,
                 existing |-> existing, made |-> FALSE]
    IN  IF asked /\ Lower(answer) # "y"
        THEN [base EXCEPT !.warned = TRUE]
        ELSE IF mk = "fail"
        THEN [base EXCEPT !.cfg = added, !.raised = TRUE,
                          !.error = "ScriptError", !.warned = asked]
        ELSE [base EXCEPT !.cfg = added,
                          !.write = TRUE, !.warned = asked, !.made = TRUE]

\* register_problem (registry.py lines 73-92) on the in-memory config cfg, up
\* to the call of _write_config: answer is what input() returns when it is
\* called, mk tells whether make_run_script succeeds, script is the location
\* it returns.  write tells whether _write_config is reached.
register_problem_op(cfg, name, force, answer, mk, script) ==
    LET existing == name \in Sections(cfg)
        asked == existing /\ ~force
        added == IF existing THEN cfg ELSE [cfg EXCEPT ![name] = "noscript"]
        base == [cfg |-> cfg, write |-> FALSE, raised |-> FALSE,
                 error |-> None, warned |-> FALSE, asked |-> asked,
                 existing |-> existing, made |-> FALSE]
    IN  IF asked /\ Lower(answer) # "y"
        THEN [base EXCEPT !.warned = TRUE]
        ELSE IF mk = "fail"
        THEN [base EXCEPT !.cfg = added, !.raised = TRUE,
                          !.error = "ScriptError", !.warned = asked]
        ELSE [base EXCEPT !.cfg = [added EXCEPT ![name] = script],
                          !.write = TRUE, !.warned = asked, !.made = TRUE]

\* outcomes of the provisioning step: `conda env create`, the run of
\* register.py for reasons of its own, and what its stdin answers to a prompt
ProvOutcomes == [env : {"created", "exists", "fail"},
                 run : {"ok", "fail"},
                 stdin : Answers \cup {"EOF"}]

\* the register.py subprocess (foldx_sasa/register.py lines 187-194): a fresh
\* process that loads the store st and calls register_problem without force
register_subprocess(st, name, prov) ==
    LET r == register_problem_op(st, name, FALSE, prov.stdin, "ok",
                                 "repo_script")
        unreadable == \E n \in SectionNames : st[n] = "duplicate"
    IN  IF prov.run = "fail" \/ unreadable \/ (r.asked /\ prov.stdin = "EOF")
        THEN [failed |-> TRUE, prompted |-> r.asked /\ ~unreadable,
              store |-> st]
        ELSE [failed |-> FALSE, prompted |-> r.asked,
              store |-> IF r.write THEN r.cfg ELSE st]

\* register_problem_from_repository(name), run in the caller process with the
\* in-memory config cfg over the persisted store st.  The entry is written by
\* the register.py subprocess, which loads the store itself.
register_problem_from_repository(cfg, st, name, prov) ==
    IF name \in Sections(cfg)
    THEN [raised |-> FALSE, error |-> None, built |-> FALSE,
          prompted |-> FALSE, store |-> st]
    ELSE IF prov.env = "fail"
    THEN [raised |-> TRUE, error |-> "CalledProcessError", built |-> FALSE,
          prompted |-> FALSE, store |-> st]
    ELSE LET sub == register_subprocess(st, name, prov)
         IN  [raised |-> sub.failed,
              error |-> IF sub.failed THEN "RuntimeError" ELSE None,
              built |-> prov.env = "created",
              prompted |-> sub.prompted,
              store |-> sub.store]

\* variant of __register_objective_if_available that installs whatever the
\* answer to the confirmation is
__register_objective_any_answer(cfg, st, name, force_register, answer, prov) ==
    LET base == [raised |-> FALSE, error |-> None, asked |-> 0, provRuns |-> 0,
                 reads |-> 1, store |-> st]
    IN  IF InConfig(st, name) THEN base
        ELSE IF name \notin AVAILABLE_OBJECTIVES
        THEN [base EXCEPT !.raised = TRUE, !.error = "ValueError"]
        ELSE LET ask == IF force_register THEN 0 ELSE 1
                 r == register_problem_from_repository(cfg, st, name, prov)
             IN  IF r.raised
                 THEN [base EXCEPT !.raised = TRUE, !.error = r.error,
                                   !.asked = ask, !.provRuns = 1,
                                   !.store = r.store]
                 ELSE [base EXCEPT !.asked = ask, !.provRuns = 1,
                                   !.reads = 2, !.store = r.store]

\* __register_objective_if_available(name, force_register): answer is what
\* input() returns when it is called.
__register_objective_if_available(cfg, st, name, force_register, answer, prov) ==
    LET base == [raised |-> FALSE, error |-> None, asked |-> 0, provRuns |-> 0,
                 reads |-> 1, store |-> st]
    IN  IF InConfig(st, name) THEN base
        ELSE IF name \notin AVAILABLE_OBJECTIVES
        THEN [base EXCEPT !.raised = TRUE, !.error = "ValueError"]
        ELSE LET ans == IF force_register THEN "y" ELSE answer
                 ask == IF force_register THEN 0 ELSE 1
             IN  IF ans = "y"
                 THEN LET r == register_problem_from_repository(cfg, st, name, prov)
                      IN  IF r.raised
                          THEN [base EXCEPT !.raised = TRUE, !.error = r.error,
                                            !.asked = ask, !.provRuns = 1,
                                            !.store = r.store]
                          ELSE [base EXCEPT !.asked = ask, !.provRuns = 1,
                                            !.reads = 2, !.store = r.store]
                 ELSE [base EXCEPT !.raised = TRUE, !.error = "ValueError",
                                   !.asked = ask]

\* variant of __create_as_isolated_process that launches for any section
__create_as_isolated_process_any_section(st, name, alive) ==
    IF ~InConfig(st, name)
    THEN [raised |-> TRUE, error |-> "ValueError", spawned |-> FALSE,
          msgs |-> <<>>]
    ELSE IF ~alive
    THEN [raised |-> TRUE, error |-> "ChannelClosed", spawned |-> TRUE,
          msgs |-> <<>>]
    ELSE [raised |-> FALSE, error |-> None, spawned |-> TRUE,
          msgs |-> <<"SETUP">>]

\* __create_as_isolated_process up to and including the SETUP send; alive
\* tells whether the spawned child is still there when SETUP is sent.
__create_as_isolated_process(st, name, alive) ==
    IF ~InConfig(st, name)
    THEN [raised |-> TRUE, error |-> "ValueError", spawned |-> FALSE,
          msgs |-> <<>>]
    ELSE IF ~HasRunScript(st, name)
    THEN [raised |-> TRUE, error |-> "KeyError", spawned |-> FALSE,
          msgs |-> <<>>]
    ELSE IF ~alive
    THEN [raised |-> TRUE, error |-> "ChannelClosed", spawned |-> TRUE,
          msgs |-> <<>>]
    ELSE [raised |-> FALSE, error |-> None, spawned |-> TRUE,
          msgs |-> <<"SETUP">>]

\* --------------------------------------------------- reply handling (pure)
Tail1(msg) == SubSeq(msg, 2, Len(msg))
Raise(e, printed) == [kind |-> "raise", val |-> e, printed |-> printed]
Return(v) == [kind |-> "return", val |-> v, printed |-> None]

\* variant of setup_reply that builds the proxy from any three-field reply
setup_reply_any_tag(msg) ==
    LET msg_type == msg[1]
        rest == Tail1(msg)
    IN  IF msg_type = "EXCEPTION"
        THEN IF Len(rest) = 2 THEN Raise(rest[1], rest[2])
                              ELSE Raise("ValueError", None)
        ELSE IF Len(rest) = 3 THEN Return(rest[3])
                              ELSE Raise("ValueError", None)

\* __create_as_isolated_process, lines 127-139: what the SETUP reply leads to
setup_reply(msg) ==
    LET msg_type == msg[1]
        rest == Tail1(msg)
    IN  IF msg_type = "SETUP"
        THEN IF Len(rest) = 3 THEN Return(rest[3])
                              ELSE Raise("ValueError", None)
        ELSE IF msg_type = "EXCEPTION"
        THEN IF Len(rest) = 2 THEN Raise(rest[1], rest[2])
                              ELSE Raise("ValueError", None)
        ELSE Raise("ValueError", None)

\* variant of _black_box_reply that hides the remote error behind its own
_black_box_reply_own_error(msg) ==
    LET msg_type == msg[1]
        val == Tail1(msg)
    IN  IF msg_type = "QUERY" /\ Len(val) >= 1 THEN Return(val[1])
        ELSE IF msg_type = "QUERY" THEN Raise("IndexError", None)
        ELSE Raise("ValueError", None)

\* variant of _black_box_reply that returns the payload of an EXCEPTION reply
_black_box_reply_swallow(msg) ==
    LET msg_type == msg[1]
        val == Tail1(msg)
    IN  IF msg_type \in {"QUERY", "EXCEPTION"}
        THEN IF Len(val) >= 1 THEN Return(val[1])
                              ELSE Raise("IndexError", None)
        ELSE Raise("ValueError", None)

\* ExternalBlackBox._black_box, lines 43-55: what the QUERY reply leads to
_black_box_reply(msg) ==
    LET msg_type == msg[1]
        val == Tail1(msg)
    IN  IF msg_type = "EXCEPTION"
        THEN IF Len(val) = 2 THEN Raise(val[1], val[2])
                             ELSE Raise("ValueError", None)
        ELSE IF msg_type = "QUERY"
        THEN IF Len(val) >= 1 THEN Return(val[1])
                              ELSE Raise("IndexError", None)
        ELSE Raise("ValueError", None)

\* ExternalBlackBox.__getattr__, lines 75-76: `_, val = recv(); return val`
__getattr___reply(msg) ==
    IF Len(msg) = 2 THEN Return(msg[2]) ELSE Raise("ValueError", None)

\* variant of terminate that keeps self.observer after finish()
terminate_keeps_observer(fo, alive) ==
    LET hasPw == fo.process_wrapper # None
        sendFails == hasPw /\ ~alive
    IN  IF sendFails
        THEN [raised |-> TRUE, msgs |-> <<>>, closes |-> 0, finishes |-> 0,
              f |-> fo]
        ELSE [raised |-> FALSE,
              msgs |-> IF hasPw THEN <<"QUIT">> ELSE <<>>,
              closes |-> IF hasPw THEN 1 ELSE 0,
              finishes |-> IF fo.observer # None THEN 1 ELSE 0,
              f |-> [fo EXCEPT !.process_wrapper = None]]

\* variant of terminate that keeps self.process_wrapper after close()
terminate_keeps_wrapper(fo, alive) ==
    LET hasPw == fo.process_wrapper # None
        sendFails == hasPw /\ ~alive
    IN  IF sendFails
        THEN [raised |-> TRUE, msgs |-> <<>>, closes |-> 0, finishes |-> 0,
              f |-> fo]
        ELSE [raised |-> FALSE,
              msgs |-> IF hasPw THEN <<"QUIT">> ELSE <<>>,
              closes |-> IF hasPw THEN 1 ELSE 0,
              finishes |-> IF fo.observer # None THEN 1 ELSE 0,
              f |-> [fo EXCEPT !.observer = None]]

\* ExternalBlackBox.terminate on the proxy fo, with the child alive or gone
terminate(fo, alive) ==
    LET hasPw == fo.process_wrapper # None
        sendFails == hasPw /\ ~alive
    IN  IF sendFails
        THEN [raised |-> TRUE, msgs |-> <<>>, closes |-> 0, finishes |-> 0,
              f |-> fo]
        ELSE [raised |-> FALSE,
              msgs |-> IF hasPw THEN <<"QUIT">> ELSE <<>>,
              closes |-> IF hasPw THEN 1 ELSE 0,
              finishes |-> IF fo.observer # None THEN 1 ELSE 0,
              f |-> [fo EXCEPT !.process_wrapper = None, !.observer = None]]

\* AbstractBlackBox.__call__ around _black_box: the observer attached to the
\* black box is notified once when _black_box returned a value
observe_calls(fo, outcome) ==
    IF outcome.kind = "return" /\ fo.observer # None THEN 1 ELSE 0

\* the arguments of observer.initialize_observer: create passes x0 and y0 of
\* the SETUP reply (lines 237-239), start passes None for both (line 287)
initialize_args(entry, msg) ==
    IF entry = "create"
    THEN <<msg[4], "caller_info", msg[2], msg[3], "seed">>
    ELSE <<msg[4], "caller_info", None, None, "seed">>

\* ----------------------------------------------------------------- initial
\* the parts of the state that the orchestrator and the proxy never touch
NoRegistry == [file |-> <<>>]
NoEval == [pc |-> "none"]
NoChild == [pc |-> "none"]

NoBlackBox == [kind |-> "none", process_wrapper |-> None, observer |-> None,
               info |-> None]
NoResult == [op |-> "none", kind |-> "none", val |-> None, printed |-> None]
Done(op, o) == [op |-> op, kind |-> o.kind, val |-> o.val, printed |-> o.printed]

Init ==
    /\ store \in [SectionNames -> {Absent, "user_script"}]
    /\ config = store
    /\ pc = "start"
    /\ req = [entry |-> "none", name |-> None, force_isolation |-> FALSE,
              force_register |-> FALSE, observer |-> FALSE]
    /\ f = NoBlackBox
    /\ pw = [made |-> 0, closes |-> 0]
    /\ peerAlive = FALSE
    /\ sent = <<>>
    /\ outstanding = 0
    /\ obs = [init |-> 0, observe |-> 0, finish |-> 0, args |-> <<>>]
    /\ result = NoResult
    /\ hist = [ops |-> 0, reads |-> 0, asked |-> 0, provRuns |-> 0,
               termCalls |-> 0, termOK |-> 0, termAfter |-> 0,
               callSends |-> 0, callRecvs |-> 0, queries |-> 0,
               okQueries |-> 0, excQueries |-> 0, okAfterExc |-> 0,
               setupOK |-> FALSE, lastReply |-> <<>>,
               registered |-> FALSE, answer |-> None, observer_info |-> None]
    /\ reg = NoRegistry
    /\ ev = NoEval
    /\ child = NoChild

\* variant of in_process that forgets force_isolation
in_process_unforced(name, force_isolation) ==
    name \in AVAILABLE_PROBLEM_FACTORIES

\* ---------------------------------------------------------- create / start
\* the test of create (line 215) and start (line 274)
in_process(name, force_isolation) ==
    name \in AVAILABLE_PROBLEM_FACTORIES /\ ~force_isolation

\* create and start, in-process path (lines 215-218 and 274-276)
create_in_process ==
    /\ pc = "start"
    /\ \E name \in Names, entry \in {"create", "start"},
          force_isolation \in BOOLEAN, force_register \in BOOLEAN,
          observer \in BOOLEAN :
          /\ in_process(name, force_isolation)
          /\ req' = [entry |-> entry, name |-> name,
                     force_isolation |-> force_isolation,
                     force_register |-> force_register, observer |-> observer]
          /\ f' = [NoBlackBox EXCEPT !.kind = "local", !.info = "local_info"]
          /\ result' = Done(entry, Return("local"))
    /\ pc' = "local"
    /\ UNCHANGED <<store, config, pw, peerAlive, sent, outstanding, obs, hist>>
    /\ UNCHANGED <<reg, ev, child>>

\* create and start, isolated path up to the SETUP send (lines 223-227 and
\* 280-283 with __register_objective_if_available and the first part of
\* __create_as_isolated_process)
create_isolated ==
    /\ pc = "start"
    /\ \E name \in Names, entry \in {"create", "start"},
          force_isolation \in BOOLEAN, force_register \in BOOLEAN,
          observer \in BOOLEAN, answer \in Answers,
          prov \in ProvOutcomes, alive \in BOOLEAN :
          LET r == __register_objective_if_available(
                       config, store, name, force_register, answer, prov)
              iso == __create_as_isolated_process(r.store, name, alive)
          IN  /\ ~in_process(name, force_isolation)
              /\ req' = [entry |-> entry, name |-> name,
                         force_isolation |-> force_isolation,
                         force_register |-> force_register,
                         observer |-> observer]
              /\ store' = r.store
              /\ IF r.raised
                 THEN /\ pc' = "failed"
                      /\ result' = Done(entry, Raise(r.error, None))
                      /\ hist' = [hist EXCEPT
                            !.reads = @ + r.reads,
                            !.asked = @ + r.asked,
                            !.provRuns = @ + r.provRuns,
                            !.registered = InConfig(store, name),
                            !.answer = IF r.asked = 1 THEN answer ELSE None]
                      /\ UNCHANGED <<pw, peerAlive, sent, outstanding>>
                 ELSE /\ hist' = [hist EXCEPT
                            !.reads = @ + r.reads + 1,
                            !.asked = @ + r.asked,
                            !.provRuns = @ + r.provRuns,
                            !.registered = InConfig(store, name),
                            !.answer = IF r.asked = 1 THEN answer ELSE None]
                      /\ pw' = [pw EXCEPT !.made = @ + (IF iso.spawned THEN 1 ELSE 0)]
                      /\ peerAlive' = (iso.spawned /\ alive)
                      /\ sent' = sent \o iso.msgs
                      /\ outstanding' = outstanding + Len(iso.msgs)
                      /\ IF iso.raised
                         THEN /\ pc' = "failed"
                              /\ result' = Done(entry, Raise(iso.error, None))
                         ELSE /\ pc' = "waitSetup"
                              /\ result' = [NoResult EXCEPT !.op = entry,
                                                            !.kind = "pending"]
    /\ UNCHANGED <<config, f, obs>>
    /\ UNCHANGED <<reg, ev, child>>

\* __create_as_isolated_process from its recv on (lines 127-143), then the
\* observer wiring of create/start (lines 232-243 and 285-291)
setup_recv ==
    /\ pc = "waitSetup"
    /\ \/ /\ peerAlive
          /\ \E msg \in Replies :
                LET o == setup_reply(msg)
                IN  /\ outstanding' = outstanding - 1
                    /\ hist' = [hist EXCEPT
                          !.setupOK = (msg[1] = "SETUP"),
                          !.lastReply = msg,
                          !.observer_info =
                              IF o.kind = "return" /\ req.observer
                                 /\ req.entry = "create"
                              THEN "session_info" ELSE None]
                    /\ IF o.kind = "return"
                       THEN /\ f' = [kind |-> "external",
                                     process_wrapper |-> "pw",
                                     observer |-> IF req.observer THEN "obs"
                                                                  ELSE None,
                                     info |-> o.val]
                            /\ obs' = [obs EXCEPT
                                  !.init = @ + (IF req.observer THEN 1 ELSE 0),
                                  !.args = IF req.observer
                                           THEN initialize_args(req.entry, msg)
                                           ELSE @]
                            /\ pc' = "ready"
                            /\ result' = Done(req.entry, Return("external"))
                       ELSE /\ pc' = "failed"
                            /\ result' = Done(req.entry, o)
                            /\ UNCHANGED <<f, obs>>
       \/ /\ ~peerAlive
          /\ pc' = "failed"
          /\ result' = Done(req.entry, Raise("ChannelClosed", None))
          /\ UNCHANGED <<f, obs, outstanding, hist>>
    /\ UNCHANGED <<store, config, req, pw, peerAlive, sent>>
    /\ UNCHANGED <<reg, ev, child>>

\* ------------------------------------------------------------- the proxy
\* self.process_wrapper.send([tag, ...]) on the proxy fo
proxy_send(fo, alive, tag) ==
    IF fo.process_wrapper = None
    THEN [raised |-> TRUE, error |-> "AttributeError", msgs |-> <<>>]
    ELSE IF ~alive
    THEN [raised |-> TRUE, error |-> "ChannelClosed", msgs |-> <<>>]
    ELSE [raised |-> FALSE, error |-> None, msgs |-> <<tag>>]

\* variant of _black_box_send that sends the QUERY a second time
_black_box_send_twice(fo, alive) ==
    LET s == proxy_send(fo, alive, "QUERY")
    IN  [s EXCEPT !.msgs = @ \o @]

\* ExternalBlackBox._black_box, line 42
_black_box_send(fo, alive) == proxy_send(fo, alive, "QUERY")

\* ExternalBlackBox.__getattr__, line 74
__getattr___send(fo, alive) == proxy_send(fo, alive, "ATTRIBUTE")

Usable == pc = "ready" /\ f.kind = "external" /\ hist.ops < MaxOps

\* f(x): the send of _black_box; the caller then blocks in recv
call_send ==
    /\ Usable
    /\ LET s == _black_box_send(f, peerAlive)
       IN  /\ sent' = sent \o s.msgs
           /\ outstanding' = outstanding + Len(s.msgs)
           /\ hist' = [hist EXCEPT !.ops = @ + 1, !.callSends = Len(s.msgs),
                                   !.callRecvs = 0,
                                   !.queries = @ + Len(s.msgs),
                                   !.lastReply = <<>>]
           /\ IF s.raised
              THEN /\ pc' = "ready"
                   /\ result' = Done("call", Raise(s.error, None))
              ELSE /\ pc' = "waitQuery"
                   /\ result' = [NoResult EXCEPT !.op = "call",
                                                 !.kind = "pending"]
    /\ UNCHANGED <<store, config, req, f, pw, peerAlive, obs>>
    /\ UNCHANGED <<reg, ev, child>>

\* f(x): the recv of _black_box and what follows it
call_recv ==
    /\ pc = "waitQuery"
    /\ pc' = "ready"
    /\ \/ /\ peerAlive
          /\ \E msg \in Replies :
                LET o == _black_box_reply(msg)
                    ok == msg[1] = "QUERY" /\ Len(msg) >= 2
                    exc == msg[1] = "EXCEPTION"
                IN  /\ outstanding' = outstanding - 1
                    /\ result' = Done("call", o)
                    /\ obs' = [obs EXCEPT !.observe = @ + observe_calls(f, o)]
                    /\ hist' = [hist EXCEPT
                          !.callRecvs = @ + 1,
                          !.lastReply = msg,
                          !.okQueries = @ + (IF ok THEN 1 ELSE 0),
                          !.excQueries = @ + (IF exc THEN 1 ELSE 0),
                          !.okAfterExc = @ + (IF ok /\ hist.excQueries > 0
                                              THEN 1 ELSE 0)]
       \/ /\ ~peerAlive
          /\ result' = Done("call", Raise("ChannelClosed", None))
          /\ hist' = [hist EXCEPT !.callRecvs = @ + 1]
          /\ UNCHANGED <<outstanding, obs>>
    /\ UNCHANGED <<store, config, req, f, pw, peerAlive, sent>>
    /\ UNCHANGED <<reg, ev, child>>

\* f.<name>: the send of __getattr__
getattr_send ==
    /\ Usable
    /\ LET s == __getattr___send(f, peerAlive)
       IN  /\ sent' = sent \o s.msgs
           /\ outstanding' = outstanding + Len(s.msgs)
           /\ hist' = [hist EXCEPT !.ops = @ + 1, !.lastReply = <<>>]
           /\ IF s.raised
              THEN /\ pc' = "ready"
                   /\ result' = Done("getattr", Raise(s.error, None))
              ELSE /\ pc' = "waitAttr"
                   /\ result' = [NoResult EXCEPT !.op = "getattr",
                                                 !.kind = "pending"]
    /\ UNCHANGED <<store, config, req, f, pw, peerAlive, obs>>
    /\ UNCHANGED <<reg, ev, child>>

\* f.<name>: the recv of __getattr__ and its return
getattr_recv ==
    /\ pc = "waitAttr"
    /\ pc' = "ready"
    /\ \/ /\ peerAlive
          /\ \E msg \in Replies :
                /\ outstanding' = outstanding - 1
                /\ result' = Done("getattr", __getattr___reply(msg))
                /\ hist' = [hist EXCEPT !.lastReply = msg]
       \/ /\ ~peerAlive
          /\ result' = Done("getattr", Raise("ChannelClosed", None))
          /\ UNCHANGED <<outstanding, hist>>
    /\ UNCHANGED <<store, config, req, f, pw, peerAlive, sent, obs>>
    /\ UNCHANGED <<reg, ev, child>>

\* one invocation of terminate(), reached as `how`
Teardown(how) ==
    /\ Usable
    /\ LET t == terminate(f, peerAlive)
       IN  /\ sent' = sent \o t.msgs
           /\ pw' = [pw EXCEPT !.closes = @ + t.closes]
           /\ obs' = [obs EXCEPT !.finish = @ + t.finishes]
           /\ f' = t.f
           /\ result' = Done(how, IF t.raised
                                  THEN Raise("ChannelClosed", None)
                                  ELSE Return(None))
           /\ hist' = [hist EXCEPT
                 !.ops = @ + 1,
                 !.lastReply = <<>>,
                 !.termCalls = @ + 1,
                 !.termOK = @ + (IF t.raised THEN 0 ELSE 1),
                 !.termAfter = @ + (IF hist.termOK > 0 THEN 1 ELSE 0)]
    /\ UNCHANGED <<store, config, req, peerAlive, outstanding>>
    /\ UNCHANGED <<reg, ev, child>>

\* an explicit f.terminate()
terminate_call == Teardown("terminate") /\ pc' = "ready"

\* leaving a `with` block: __exit__ (lines 81-82)
__exit__ == Teardown("__exit__") /\ pc' = "ready"

\* disposal of the proxy: __del__ (lines 78-79); the object is gone afterwards
__del__ == Teardown("__del__") /\ pc' = "disposed"

\* the child process exits (on QUIT, on a crash, or when it is killed)
PeerExit ==
    /\ peerAlive
    /\ peerAlive' = FALSE
    /\ UNCHANGED <<store, config, pc, req, f, pw, sent, outstanding, obs,
                   result, hist>>
    /\ UNCHANGED <<reg, ev, child>>

Next ==
    \/ create_in_process
    \/ create_isolated
    \/ setup_recv
    \/ call_send
    \/ call_recv
    \/ getattr_send
    \/ getattr_recv
    \/ terminate_call
    \/ __exit__
    \/ __del__
    \/ PeerExit

Spec == Init /\ [][Next]_vars

TypeOK ==
    /\ store \in [SectionNames -> {Absent, "user_script", "repo_script"}]
    /\ pc \in {"start", "local", "failed", "waitSetup", "ready", "waitQuery",
               "waitAttr", "disposed"}
    /\ f.kind \in {"none", "local", "external"}
    /\ outstanding \in 0..2
    /\ peerAlive \in BOOLEAN

\* ================================================================ claims
QuitSent == \E i \in 1..Len(sent) : sent[i] = "QUIT"
RemoteOps == {"create", "start", "call", "getattr"}
ExpectedTag(op) == IF op \in {"create", "start"} THEN "SETUP"
                   ELSE IF op = "call" THEN "QUERY" ELSE "ATTRIBUTE"

\* C1: once terminate() has returned normally on a proxy, every further
\* terminate() invocation (explicit, __exit__ or __del__) returns without
\* raising, sends nothing, does not call close() again and does not call
\* observer.finish() again.
C1_TerminateIdempotent ==
    [][ (hist.termOK >= 1 /\ hist'.termCalls = hist.termCalls + 1)
        => /\ result'.kind = "return"
           /\ sent' = sent
           /\ pw' = pw
           /\ obs' = obs ]_vars

\* a terminate() was invoked after an earlier one had completed
C1_Witness ==
    hist.termAfter >= 1 /\ hist.termCalls >= 2 /\ result.kind = "return"

\* C2 (as claimed): once a ProcessWrapper was constructed and creation failed
\* or a teardown was invoked, close() has been called exactly once.
C2_ClosedExactlyOnce ==
    (pw.made = 1 /\ (pc = "failed" \/ hist.termCalls >= 1)) => pw.closes = 1

\* C3: QUIT is the last message on its channel: after it nothing is sent, and
\* a later black-box call or attribute access fails in the caller with no
\* message put on the channel.
C3_NothingAfterQuit ==
    [][ QuitSent
        => /\ sent' = sent
           /\ (hist'.ops > hist.ops /\ result'.op \in {"call", "getattr"})
                => /\ result'.kind = "raise"
                   /\ result'.val = "AttributeError"
                   /\ pc' = "ready" ]_vars

\* a call was attempted after QUIT and failed on the caller side
C3_Witness ==
    /\ QuitSent
    /\ result.op = "call"
    /\ result.kind = "raise"
    /\ sent[Len(sent)] = "QUIT"

\* C4: the first message on the channel is SETUP; QUERY or ATTRIBUTE are sent,
\* and a proxy exists, only after a reply tagged SETUP was received; when
\* creation raised, no proxy was constructed.
C4_SetupFirst ==
    /\ sent # <<>> => sent[1] = "SETUP"
    /\ \A i \in 1..Len(sent) :
          sent[i] \in {"QUERY", "ATTRIBUTE"} => hist.setupOK
    /\ f.kind = "external" => hist.setupOK
    /\ pc = "failed" => f.kind = "none"

\* a QUERY went out on a channel whose handshake succeeded
C4_Witness ==
    /\ hist.setupOK
    /\ \E i \in 1..Len(sent) : sent[i] = "QUERY"

\* C5: a black-box call that got a reply sent exactly one QUERY and did
\* exactly one recv; a call never sends more than one QUERY nor receives more
\* often than it sent; a call that got no reply raises; at most one request
\* is outstanding on the channel.
C5_OneQueryOneRecv ==
    /\ outstanding \in {0, 1}
    /\ hist.callSends <= 1
    /\ hist.callRecvs <= hist.callSends
    /\ (pc = "waitQuery") => (hist.callSends = 1 /\ hist.callRecvs = 0)
    /\ (result.op = "call" /\ result.kind \in {"return", "raise"})
         => IF hist.lastReply # <<>>
            THEN hist.callSends = 1 /\ hist.callRecvs = 1
            ELSE /\ result.kind = "raise"
                 /\ result.val \in {"ChannelClosed", "AttributeError"}

\* a call completed with a value after one send and one recv
C5_Witness ==
    /\ result.op = "call"
    /\ result.kind = "return"
    /\ hist.callSends = 1
    /\ hist.callRecvs = 1

\* C6: an EXCEPTION(error, diagnostic) reply to a QUERY makes the call raise
\* the carried error with the diagnostic printed, and changes nothing in the
\* proxy: same process wrapper and observer, nothing closed, nothing sent.
C6_ExceptionReraised ==
    [][ (pc = "waitQuery" /\ hist'.lastReply = <<"EXCEPTION", "p1", "p2">>)
        => /\ result' = [op |-> "call", kind |-> "raise", val |-> "p1",
                         printed |-> "p2"]
           /\ f' = f
           /\ pw' = pw
           /\ sent' = sent
           /\ obs' = obs
           /\ pc' = "ready" ]_vars

\* after an EXCEPTION reply a later call on the same proxy returned a value
C6_Witness ==
    /\ hist.okAfterExc >= 1
    /\ result.op = "call"
    /\ result.kind = "return"
    /\ f.process_wrapper # None

\* C7 (as claimed): a caller-side operation returns a value only for a reply
\* carrying the tag expected for its request, and an EXCEPTION reply to an
\* attribute access is raised as the remote error.
C7_UnexpectedTagRaises ==
    /\ (result.op \in RemoteOps /\ result.kind = "return"
          /\ hist.lastReply # <<>>)
         => hist.lastReply[1] = ExpectedTag(result.op)
    /\ (result.op = "getattr" /\ hist.lastReply = <<"EXCEPTION", "p1", "p2">>)
         => (result.kind = "raise" /\ result.val = "p1")

\* C8: with an observer attached, the number of observe() notifications is
\* the number of QUERY requests answered by a well-formed QUERY reply.
C8_ObservePerSuccess ==
    (f.kind = "external" /\ req.observer) => obs.observe = hist.okQueries

\* an observed proxy saw a successful and an unsuccessful evaluation
C8_Witness ==
    /\ f.kind = "external"
    /\ req.observer
    /\ obs.observe >= 1
    /\ hist.queries > hist.okQueries
    /\ pc = "ready"

\* C9 (as claimed): once terminate() was invoked on a proxy with an attached
\* observer, observer.finish() has been called exactly once.
C9_FinishExactlyOnce ==
    (f.kind = "external" /\ req.observer /\ hist.termCalls >= 1)
       => obs.finish = 1

\* C10: create/start with an importable name and force_isolation false take
\* the in-process path: a local black box, no ProcessWrapper, no message, no
\* read of the persisted registry, no provisioning and no confirmation; with
\* force_isolation true the black box is never the local one.
C10_InProcessPath ==
    /\ (req.entry # "none" /\ req.name \in AVAILABLE_PROBLEM_FACTORIES
          /\ ~req.force_isolation)
         => /\ f.kind = "local"
            /\ pc = "local"
            /\ pw.made = 0
            /\ sent = <<>>
            /\ hist.reads = 0
            /\ hist.provRuns = 0
            /\ hist.asked = 0
    /\ req.force_isolation => f.kind # "local"

\* an importable name was created in-process
C10_Witness ==
    /\ req.name \in AVAILABLE_PROBLEM_FACTORIES
    /\ ~req.force_isolation
    /\ f.kind = "local"
    /\ result.kind = "return"

\* an isolated creation was requested for a name with no section in the store
IsolatedUnregistered ==
    /\ req.entry # "none"
    /\ ~in_process(req.name, req.force_isolation)
    /\ ~hist.registered

\* C11: isolated creation of a name absent from the persisted registry: a name
\* that is not provisionable makes create/start raise with no confirmation,
\* no provisioning and no process; for a provisionable name the confirmation
\* is requested exactly when force_register is false, the Provisioner runs
\* exactly when force_register is true or the answer is "y", and any other
\* answer makes create/start raise with no provisioning and no process.
C11_ProvisionOnDemand ==
    IsolatedUnregistered =>
       IF req.name \notin AVAILABLE_OBJECTIVES
       THEN /\ pc = "failed"
            /\ result.kind = "raise"
            /\ hist.asked = 0
            /\ hist.provRuns = 0
            /\ pw.made = 0
       ELSE /\ hist.asked = (IF req.force_register THEN 0 ELSE 1)
            /\ (hist.provRuns = 1)
                 <=> (req.force_register \/ hist.answer = "y")
            /\ hist.provRuns \in {0, 1}
            /\ (~req.force_register /\ hist.answer # "y")
                 => /\ pc = "failed"
                    /\ result.kind = "raise"
                    /\ pw.made = 0
                    /\ sent = <<>>

\* the confirmation for a provisionable name was declined
C11_Witness ==
    /\ IsolatedUnregistered
    /\ req.name \in AVAILABLE_OBJECTIVES
    /\ hist.asked = 1
    /\ hist.answer \in {"n", "Y"}
    /\ pc = "failed"

\* C12 (as claimed): when create was given an observer and returned, the
\* observer was initialized exactly once with (problem_info, caller_info, x0,
\* y0, seed), it is attached to the returned black box, and the fifth element
\* of the returned tuple is the session info initialize returned.
C12_ObserverInitialized ==
    (req.entry = "create" /\ req.observer /\ result.op = "create"
       /\ result.kind = "return")
      => /\ obs.init = 1
         /\ Len(obs.args) = 5
         /\ obs.args[1] = f.info
         /\ f.observer = "obs"
         /\ hist.observer_info = "session_info"

\* =========================================================== the registry
\* Two caller processes share the persisted store.  Each imported registry.py
\* once (lines 26-28) and mutates its own in-memory config; _write_config
\* rewrites the whole file from that config.  The file is a sequence of
\* section blocks <<name, run_script_location>>; open(config_file, "w+")
\* empties it, and the buffered text reaches it from offset 0 when the file
\* is closed, leaving in place whatever lies behind the written blocks.
Procs == {1, 2}
\* the names the caller processes register and delete by hand
RegNames == {"aloha", "mine"}
NameOrder == <<"aloha", "foldx_sasa", "mine">>

RECURSIVE BlocksFrom(_, _)
BlocksFrom(cfg, i) ==
    IF i > Len(NameOrder) THEN <<>>
    ELSE (IF cfg[NameOrder[i]] = Absent THEN <<>>
          ELSE << <<NameOrder[i], cfg[NameOrder[i]]>> >>)
         \o BlocksFrom(cfg, i + 1)

\* config.write(configfile): one block per section of the in-memory config
Blocks(cfg) == BlocksFrom(cfg, 1)

\* config.read(config_file): the sections a fresh load finds in the file; a
\* name with two blocks cannot be loaded (DuplicateSectionError)
View(file) ==
    [n \in SectionNames |->
        LET at == { i \in 1..Len(file) : file[i][1] = n }
        IN  IF at = {} THEN Absent
            ELSE IF Cardinality(at) = 1
            THEN file[CHOOSE i \in at : TRUE][2]
            ELSE "duplicate"]

\* writing the blocks new from offset 0 over the content old
Overwrite(old, new) == new \o SubSeq(old, Len(new) + 1, Len(old))

\* the location make_run_script returns in process p
Script(p) == IF p = 1 THEN "s1" ELSE "s2"

Cfg(p) == IF p = 1 THEN config ELSE reg.cfg2

NoOp == [kind |-> "none", name |-> None, script |-> None,
         answer |-> None, existing |-> FALSE, raised |-> FALSE,
         error |-> None, warned |-> FALSE, made |-> FALSE,
         state |-> "none", before |-> <<>>, dirty |-> FALSE]
NoPv == [name |-> None, n |-> 0, ok1 |-> FALSE, entry1 |-> None,
         raised |-> FALSE, external |-> FALSE, prompted |-> FALSE,
         builds |-> 0]

ProxyVars == <<pc, req, f, pw, peerAlive, sent, outstanding, obs, result,
               hist, ev, child>>

InitRegistry ==
    /\ store \in { st \in [SectionNames -> {Absent, "user_script"}] :
                      \A n \in AVAILABLE_OBJECTIVES : st[n] = Absent }
    /\ config = store
    /\ reg = [file |-> Blocks(store), cfg2 |-> store,
              rpc |-> [p \in Procs |-> "idle"],
              op |-> [p \in Procs |-> NoOp],
              muts |-> 0, lastWriter |-> 0, env |-> {}, pv |-> NoPv]
    /\ pc = "start"
    /\ req = [entry |-> "none", name |-> None, force_isolation |-> FALSE,
              force_register |-> FALSE, observer |-> FALSE]
    /\ f = NoBlackBox
    /\ pw = [made |-> 0, closes |-> 0]
    /\ peerAlive = FALSE
    /\ sent = <<>>
    /\ outstanding = 0
    /\ obs = [init |-> 0, observe |-> 0, finish |-> 0, args |-> <<>>]
    /\ result = NoResult
    /\ hist = [ops |-> 0]
    /\ ev = NoEval
    /\ child = NoChild

\* the other processes that are inside _write_config see the file change
Disturb(ops, p) ==
    [q \in Procs |->
        IF q # p /\ reg.rpc[q] = "writing" THEN [ops[q] EXCEPT !.dirty = TRUE]
        ELSE ops[q]]

\* process p ends a mutation with the in-memory config c; when write is true
\* it enters _write_config, whose open() empties the file
Mutate(p, c, o, write) ==
    /\ config' = IF p = 1 THEN c ELSE config
    /\ LET file2 == IF write THEN <<>> ELSE reg.file
           ops == [reg.op EXCEPT ![p] = o]
       IN  /\ reg' = [reg EXCEPT
                 !.file = file2,
                 !.cfg2 = IF p = 2 THEN c ELSE @,
                 !.rpc = [@ EXCEPT ![p] = IF write THEN "writing" ELSE "idle"],
                 !.op = IF write THEN Disturb(ops, p) ELSE ops,
                 !.muts = @ + 1,
                 !.pv = NoPv]
           /\ store' = View(file2)
    /\ UNCHANGED ProxyVars

\* register_problem(problem_factory, force=force) in process p
register_problem(p) ==
    /\ reg.rpc[p] = "idle"
    /\ reg.muts < MaxMuts
    /\ \E name \in RegNames, force \in BOOLEAN, answer \in Answers,
          mk \in {"ok", "fail"} :
          LET r == register_problem_op(Cfg(p), name, force, answer, mk,
                                       Script(p))
              o == [kind |-> "register", name |-> name, script |-> Script(p),
                    answer |-> IF r.asked THEN answer ELSE None,
                    existing |-> r.existing, raised |-> r.raised,
                    error |-> r.error, warned |-> r.warned, made |-> r.made,
                    state |-> IF r.write THEN "writing"
                              ELSE IF r.raised THEN "raised" ELSE "skipped",
                    before |-> store, dirty |-> FALSE]
          IN  Mutate(p, r.cfg, o, r.write)

\* delete_problem(problem_name) in process p (lines 169-171)
delete_problem(p) ==
    /\ reg.rpc[p] = "idle"
    /\ reg.muts < MaxMuts
    /\ \E name \in RegNames :
          LET o == [NoOp EXCEPT !.kind = "delete", !.name = name,
                                !.existing = name \in Sections(Cfg(p)),
                                !.state = "writing", !.before = store]
          IN  Mutate(p, [Cfg(p) EXCEPT ![name] = Absent], o, TRUE)

\* _write_config in process p (lines 202-204): config.write and the close of
\* the file that open() emptied when the mutation entered _write_config
_write_config(p) ==
    /\ reg.rpc[p] = "writing"
    /\ LET file2 == Overwrite(reg.file, Blocks(Cfg(p)))
       IN  /\ reg' = [reg EXCEPT
                 !.file = file2,
                 !.rpc = [@ EXCEPT ![p] = "idle"],
                 !.op = Disturb([@ EXCEPT ![p].state = "done"], p),
                 !.lastWriter = p,
                 !.pv = NoPv]
           /\ store' = View(file2)
    /\ UNCHANGED config
    /\ UNCHANGED ProxyVars

\* process p stops inside _write_config, after open() and before the text
\* has reached the file
write_stops(p) ==
    /\ reg.rpc[p] = "writing"
    /\ reg' = [reg EXCEPT !.rpc = [@ EXCEPT ![p] = "dead"],
                          !.op = [@ EXCEPT ![p].state = "dead"],
                          !.pv = NoPv]
    /\ UNCHANGED <<store, config>>
    /\ UNCHANGED ProxyVars

\* register_problem_from_repository(name) in process 1 (lines 95-166); the
\* register.py subprocess runs to its end inside the call
provision ==
    /\ reg.rpc[1] = "idle"
    /\ reg.muts < MaxMuts
    /\ \E name \in AVAILABLE_OBJECTIVES, prov \in ProvOutcomes :
          LET r == register_problem_from_repository(config, store, name, prov)
              file2 == IF r.store = store THEN reg.file ELSE Blocks(r.store)
              again == reg.pv.name = name /\ reg.pv.n >= 1
              built == IF r.built THEN 1 ELSE 0
          IN  /\ prov.env = "created" => name \notin reg.env
              /\ prov.env = "exists" => name \in reg.env
              /\ reg' = [reg EXCEPT
                    !.file = file2,
                    !.op = IF file2 # reg.file THEN Disturb(@, 1) ELSE @,
                    !.muts = @ + 1,
                    !.env = IF r.built THEN @ \cup {name} ELSE @,
                    !.pv = IF again
                           THEN [@ EXCEPT
                                   !.n = @ + 1,
                                   !.raised = r.raised,
                                   !.external = prov.env = "fail"
                                                \/ prov.run = "fail",
                                   !.prompted = r.prompted,
                                   !.builds = @ + built]
                           ELSE [name |-> name, n |-> 1, ok1 |-> ~r.raised,
                                 entry1 |-> r.store[name],
                                 raised |-> r.raised,
                                 external |-> prov.env = "fail"
                                              \/ prov.run = "fail",
                                 prompted |-> r.prompted,
                                 builds |-> built]]
              /\ store' = View(file2)
    /\ UNCHANGED config
    /\ UNCHANGED ProxyVars

NextRegistry ==
    \/ \E p \in Procs : register_problem(p)
    \/ \E p \in Procs : delete_problem(p)
    \/ \E p \in Procs : _write_config(p)
    \/ \E p \in Procs : write_stops(p)

SpecRegistry == InitRegistry /\ [][NextRegistry]_vars

\* one caller process that registers, deletes and provisions
NextProvision ==
    \/ register_problem(1)
    \/ delete_problem(1)
    \/ _write_config(1)
    \/ provision

SpecProvision == InitRegistry /\ [][NextProvision]_vars

\* process p leaves _write_config in this step and no other process touched
\* the file while p was inside it
UndisturbedWrite(p) ==
    /\ reg.rpc[p] = "writing"
    /\ reg'.rpc[p] = "idle"
    /\ ~reg.op[p].dirty

\* C13: when register_problem completes with a write, a fresh load of the
\* store has the section of that name with the run_script_location that was
\* produced; when delete_problem completes, a fresh load has no section of
\* the name and an isolated creation of it fails as not registered.
C13_RegistryRoundTrip ==
    [][\A p \in Procs :
         UndisturbedWrite(p) =>
           LET o == reg.op[p]
           IN  /\ o.kind = "register" => store'[o.name] = o.script
               /\ o.kind = "delete" =>
                    /\ store'[o.name] = Absent
                    /\ LET c == __create_as_isolated_process(store', o.name,
                                                             TRUE)
                       IN  c.raised /\ c.error = "ValueError" /\ ~c.spawned
      ]_vars

C13_Witness ==
    /\ reg.op[1].kind = "register" /\ reg.op[1].state = "done"
    /\ ~reg.op[1].dirty /\ store[reg.op[1].name] = reg.op[1].script
    /\ reg.op[2].kind = "delete" /\ reg.op[2].state = "done"
    /\ ~reg.op[2].dirty /\ reg.op[2].before[reg.op[2].name] # Absent
    /\ store[reg.op[2].name] = Absent

\* process p registered a name its config already held, without force, and
\* input() returned answer
Declined(p, answers) ==
    /\ reg.op[p].kind = "register"
    /\ reg.op[p].existing
    /\ reg.op[p].answer \in answers

\* C14 as stated: register_problem for an already registered name with
\* force false and an answer other than 'y' fails with AlreadyRegistered.
C14_DeclineRaises ==
    \A p \in Procs :
        Declined(p, Answers \ {"y"}) =>
            reg.op[p].raised /\ reg.op[p].error = "AlreadyRegistered"

\* C14 amended: register_problem for an already registered name with force
\* false and an answer that is not 'y' in either letter case does not fail:
\* it warns and returns without reaching _write_config.
C14_DeclineWarns ==
    \A p \in Procs :
        Declined(p, Answers \ {"y", "Y"}) =>
            /\ ~reg.op[p].raised
            /\ reg.op[p].error = None
            /\ reg.op[p].warned
            /\ reg.op[p].state = "skipped"

C14_Witness ==
    \E p \in Procs :
        /\ Declined(p, {"n"})
        /\ reg.op[p].state = "skipped"
        /\ store[reg.op[p].name] = reg.op[p].before[reg.op[p].name]

\* C15: when a process stops inside _write_config, the persisted store still
\* holds exactly the entries it held before the mutation.
C15_AtomicReplace ==
    \A p \in Procs :
        (/\ reg.rpc[p] = "dead"
         /\ \A q \in Procs \ {p} : reg.op[q].kind = "none")
        => store = reg.op[p].before

\* C16: when two processes register the same name concurrently, the entry a
\* fresh load finds under the name once both have completed is the one the
\* last writer wrote.
C16_LastWriterWins ==
    (/\ \A p \in Procs : reg.op[p].kind = "register" /\ reg.op[p].state = "done"
     /\ reg.op[1].name = reg.op[2].name
     /\ reg.op[1].dirty \/ reg.op[2].dirty)
    => store[reg.op[1].name] = Script(reg.lastWriter)

\* C17: a second register_problem_from_repository(name) right after a first
\* one that succeeded also succeeds, does not create the environment again,
\* and leaves the entry of the name as the first call left it.
C17_ProvisionIdempotent ==
    (reg.pv.n = 2 /\ reg.pv.ok1 /\ ~reg.pv.external)
    => /\ ~reg.pv.raised
       /\ reg.pv.builds <= 1
       /\ store[reg.pv.name] = reg.pv.entry1

\* ======================================================== one evaluation
\* The aloha problem of registering_aloha.py, evaluated on the in-process
\* path and through the isolated-process proxy for the same input batch.
\* AbstractBlackBox.__call__ hands (x, context) to _black_box on both paths.
max_sequence_length == 5
ALOHA == <<"A", "L", "O", "H", "A">>
\* the letter a row holds at a position where it differs from ALOHA
OtherLetter == <<"L", "O", "H", "O", "F">>
Rows == { row \in [1..max_sequence_length -> {"A", "L", "O", "H", "F"}] :
            \A j \in 1..max_sequence_length :
                row[j] \in {ALOHA[j], OtherLetter[j]} }
Batches == UNION { [1..n -> Rows] : n \in 0..MaxBatch }
Contexts == {None, "ctx"}

RECURSIVE SumTo(_, _)
\* np.sum over the first k entries of a row of booleans
SumTo(bools, k) ==
    IF k = 0 THEN 0
    ELSE SumTo(bools, k - 1) + (IF bools[k] THEN 1 ELSE 0)

\* variant of aloha_black_box that sums along axis 0
aloha_black_box_axis0(x, context) ==
    LET matches == [i \in 1..Len(x) |->
                       [j \in 1..max_sequence_length |-> x[i][j] = ALOHA[j]]]
    IN  << [j \in 1..max_sequence_length |->
               SumTo([i \in 1..Len(x) |-> matches[i][j]], Len(x))] >>

\* OurAlohaBlackBox._black_box, lines 22-24: the elementwise comparison with
\* ALOHA, summed along axis 1 with keepdims, one row <<n>> per input row
aloha_black_box(x, context) ==
    LET matches == [i \in 1..Len(x) |->
                       [j \in 1..max_sequence_length |-> x[i][j] = ALOHA[j]]]
    IN  [i \in 1..Len(x) |-> << SumTo(matches[i], max_sequence_length) >>]

\* OurAlohaProblemFactory.create, lines 39-44
aloha_create ==
    LET x0 == << <<"A", "L", "O", "O", "F">> >>
    IN  [x0 |-> x0, y0 |-> aloha_black_box(x0, None)]

\* variant of _black_box_query that leaves the context out of the message
_black_box_query_no_context(x, context) == <<"QUERY", x, None>>

\* ExternalBlackBox._black_box, line 42: the message of one call
_black_box_query(x, context) == <<"QUERY", x, context>>

\* the READY state of the child runtime loop on QUERY(x, context): evaluate
\* the black box and reply with y
child_query(msg) == <<"QUERY", aloha_black_box(msg[2], msg[3])>>

InitEval ==
    /\ store = [n \in SectionNames |-> IF n = "aloha" THEN "user_script"
                                       ELSE Absent]
    /\ config = store
    /\ reg = NoRegistry
    /\ pc = "start"
    /\ req = [entry |-> "none", name |-> None, force_isolation |-> FALSE,
              force_register |-> FALSE, observer |-> FALSE]
    /\ f = NoBlackBox
    /\ pw = [made |-> 0, closes |-> 0]
    /\ peerAlive = FALSE
    /\ sent = <<>>
    /\ outstanding = 0
    /\ obs = [init |-> 0, observe |-> 0, finish |-> 0, args |-> <<>>]
    /\ result = NoResult
    /\ hist = [ops |-> 0]
    /\ child = NoChild
    /\ ev = [pc |-> "created", x0 |-> aloha_create.x0, y0 |-> aloha_create.y0,
             x |-> <<>>, context |-> None, local |-> None, query |-> <<>>,
             reply |-> <<>>, result |-> NoResult]

EvalUnchanged ==
    UNCHANGED <<store, config, pc, req, f, pw, peerAlive, sent, outstanding,
                obs, result, hist, reg, child>>

\* f(x, context) on the in-process black box
local_call ==
    /\ ev.pc = "created"
    /\ \E x \in Batches, context \in Contexts :
          ev' = [ev EXCEPT !.pc = "local", !.x = x, !.context = context,
                           !.local = aloha_black_box(x, context),
                           !.query = <<>>, !.reply = <<>>,
                           !.result = NoResult]
    /\ EvalUnchanged

\* f(x, context) on the proxy for the same input: the send of _black_box
query_send ==
    /\ ev.pc = "local"
    /\ ev' = [ev EXCEPT !.pc = "sent",
                        !.query = _black_box_query(ev.x, ev.context)]
    /\ EvalUnchanged

\* the child serves the QUERY
query_serve ==
    /\ ev.pc = "sent"
    /\ ev' = [ev EXCEPT !.pc = "replied", !.reply = child_query(ev.query)]
    /\ EvalUnchanged

\* the proxy reads the reply and returns
query_recv ==
    /\ ev.pc = "replied"
    /\ ev' = [ev EXCEPT !.pc = "done", !.result = _black_box_reply(ev.reply)]
    /\ EvalUnchanged

NextEval ==
    \/ local_call
    \/ query_send
    \/ query_serve
    \/ query_recv

SpecEval == InitEval /\ [][NextEval]_vars

C19_AlohaCounts ==
    /\ ev.y0 = << <<3>> >>
    /\ ev.pc # "created" =>
          /\ Len(ev.local) = Len(ev.x)
          /\ \A i \in 1..Len(ev.x) :
                ev.local[i] =
                    << Cardinality({ j \in 1..max_sequence_length :
                                        ev.x[i][j] = ALOHA[j] }) >>
          /\ ev.x = ev.x0 => ev.local = << <<3>> >>

C19_Witness ==
    /\ ev.pc = "local"
    /\ ev.x = ev.x0
    /\ ev.local = << <<3>> >>

\* ================================================= the child runtime loop
\* objective.py, run(objective_name): the listener loop of the child process.
\* A request is the sequence of positional fields the mother process sent.
\* The last one is what ExternalBlackBox.terminate sends (objective_factory.py
\* line 60).
Requests == { <<"x">>, <<"x", "context">>, <<"QUERY", "x", "context">>,
              <<"QUIT", None>> }
\* what the black box does with a call it accepts
Outcomes == {"y1", "y2", "raise"}

\* line 41, y = f(*msg): AbstractBlackBox.__call__ takes x and an optional
\* context, so a message of more than two fields is a TypeError; otherwise
\* the black box returns a value or raises
f_call(msg, outcome) ==
    IF Len(msg) > 2 THEN Raise("TypeError", None)
    ELSE IF outcome = "raise" THEN Raise("BlackBoxError", None)
    ELSE Return(outcome)

\* variant of run_reply that sends the value twice
run_reply_twice(out, y) == out \o << <<y>>, <<y>> >>

\* line 44, conn.send(y): the value goes out untagged
run_reply(out, y) == out \o << <<y>> >>

InitChild ==
    /\ store = [n \in SectionNames |-> IF n = "aloha" THEN "user_script"
                                       ELSE Absent]
    /\ config = store
    /\ reg = NoRegistry
    /\ pc = "start"
    /\ req = [entry |-> "none", name |-> None, force_isolation |-> FALSE,
              force_register |-> FALSE, observer |-> FALSE]
    /\ f = NoBlackBox
    /\ pw = [made |-> 0, closes |-> 0]
    /\ peerAlive = FALSE
    /\ sent = <<>>
    /\ outstanding = 0
    /\ obs = [init |-> 0, observe |-> 0, finish |-> 0, args |-> <<>>]
    /\ result = NoResult
    /\ hist = [ops |-> 0]
    /\ ev = NoEval
    /\ child = [pc |-> "start", msg |-> <<>>, out |-> <<>>, received |-> 0,
                evals |-> 0, raised |-> 0, exit |-> None, channel |-> "open"]

ChildUnchanged ==
    UNCHANGED <<store, config, pc, req, f, pw, peerAlive, sent, outstanding,
                obs, result, hist, reg, ev>>

\* lines 24-32: connect, create the problem, send [x0, y0, info]
run_connect ==
    /\ child.pc = "start"
    /\ child' = [child EXCEPT !.pc = "recv",
                              !.out = @ \o << <<"x0", "y0", "info">> >>]
    /\ ChildUnchanged

\* lines 36-39: msg = conn.recv(); None ends the loop
run_recv ==
    /\ child.pc = "recv"
    /\ child.channel = "open"
    /\ child.received < MaxServe
    /\ \E msg \in Requests \cup {<<>>} :
          child' = [child EXCEPT !.pc = IF msg = <<>> THEN "close" ELSE "call",
                                 !.msg = msg,
                                 !.received = @ + 1]
    /\ ChildUnchanged

\* lines 41-44: y = f(*msg); conn.send(y).  The try/except around them is
\* commented out (lines 40, 45-48), so an exception of f leaves run()
run_call ==
    /\ child.pc = "call"
    /\ \E outcome \in Outcomes :
          LET y == f_call(child.msg, outcome)
          IN  child' =
                IF y.kind = "raise"
                THEN [child EXCEPT !.pc = "crashed", !.exit = y.val,
                                   !.evals = @ + 1, !.raised = @ + 1]
                ELSE IF child.channel = "broken"
                THEN [child EXCEPT !.pc = "crashed", !.exit = "ChannelClosed",
                                   !.evals = @ + 1]
                ELSE [child EXCEPT !.pc = "recv", !.evals = @ + 1,
                                   !.out = run_reply(@, y.val)]
    /\ ChildUnchanged

\* lines 49-51: conn.close(); exit()
run_close ==
    /\ child.pc = "close"
    /\ child' = [child EXCEPT !.pc = "exited", !.exit = "exit"]
    /\ ChildUnchanged

\* the mother process goes away: recv() and send() fail from now on
channel_breaks ==
    /\ child.pc \in {"recv", "call"}
    /\ child.channel = "open"
    /\ child' = [child EXCEPT !.channel = "broken"]
    /\ ChildUnchanged

\* line 36 on a broken channel: recv() raises EOFError
run_recv_broken ==
    /\ child.pc = "recv"
    /\ child.channel = "broken"
    /\ child' = [child EXCEPT !.pc = "crashed", !.exit = "EOFError"]
    /\ ChildUnchanged

NextChild ==
    \/ run_connect
    \/ run_recv
    \/ run_call
    \/ run_close
    \/ channel_breaks
    \/ run_recv_broken

SpecChild == InitChild /\ [][NextChild]_vars

\* the EXCEPTION replies the child has sent
ExceptionReplies ==
    Cardinality({ i \in 1..Len(child.out) : child.out[i][1] = "EXCEPTION" })

\* C20: when the black box raises while the loop serves a request, the loop
\* replies with an EXCEPTION message and stays serving; it ends abnormally
\* only when the channel is broken.
C20_LoopSurvivesErrors ==
    /\ ExceptionReplies = child.raised
    /\ child.pc = "crashed" => child.channel = "broken"

\* C21: when the child runtime loop receives the QUIT message of the proxy's
\* terminate(), it leaves its serving loop, closes its end of the channel
\* and terminates without evaluating the black box on that message.
C21_QuitEndsLoop ==
    (child.msg # <<>> /\ child.msg[1] = "QUIT")
    => /\ child.pc \in {"close", "exited"}
       /\ child.evals < child.received

\* C24: the child sends its setup message (x0, y0, problem_info) exactly once
\* and before the first evaluation, and for each request received afterwards
\* it sends exactly one reply before the next recv.
C24_StrictlySerialized ==
    /\ child.pc = "start" =>
          child.out = <<>> /\ child.evals = 0 /\ child.received = 0
    /\ child.pc # "start" =>
          /\ child.out[1] = <<"x0", "y0", "info">>
          /\ \A i \in 2..Len(child.out) : Len(child.out[i]) = 1
    /\ child.pc = "recv" =>
          /\ Len(child.out) - 1 = child.received
          /\ child.evals = child.received
    /\ child.pc = "call" =>
          /\ Len(child.out) - 1 = child.received - 1
          /\ child.evals = child.received - 1
    /\ Len(child.out) <= child.evals + 1
    /\ child.evals <= child.received

C24_Witness ==
    /\ child.pc = "recv"
    /\ child.received = 2
    /\ Len(child.out) = 3
    /\ child.evals = 2

\* C22: for a proxy obtained from start and used as a scoped resource, once
\* the scope has been left terminate() has run: QUIT was sent once, the
\* channel is closed and the proxy no longer holds the process wrapper.
C22_ScopedRelease ==
    (req.entry = "start" /\ f.kind = "external" /\ result.op = "__exit__")
    => /\ Cardinality({ i \in 1..Len(sent) : sent[i] = "QUIT" }) = 1
       /\ pw.closes = 1
       /\ f.process_wrapper = None

\* this step is a register_problem of process p for a name its config
\* already held, without force, to which input() returned one of answers
DeclineStep(p, answers) ==
    /\ reg'.muts = reg.muts + 1
    /\ reg.rpc[p] = "idle"
    /\ \A q \in Procs \ {p} : reg'.op[q] = reg.op[q]
    /\ reg'.op[p].kind = "register"
    /\ reg'.op[p].existing
    /\ reg'.op[p].answer \in answers

\* what a declined registration leaves alone: the in-memory config of the
\* process, the persisted file, and no run script was made
NoEffect(p) ==
    /\ Cfg(p)' = Cfg(p)
    /\ reg'.file = reg.file
    /\ store' = store
    /\ ~reg'.op[p].made
    /\ reg'.rpc[p] = "idle"

\* C23 as stated: register_problem for an already registered name with force
\* false and an answer that is not 'y' has no effect: the in-memory entry
\* keeps its run_script_location, no run script is made, the store is not
\* rewritten.
C23_DeclineNoEffectAnyCase ==
    [][\A p \in Procs : DeclineStep(p, Answers \ {"y"}) => NoEffect(p)]_vars

\* C23 amended: the same for an answer that is neither 'y' nor 'Y'; the
\* answer is lower-cased before the comparison, so 'Y' confirms.
C23_DeclineNoEffect ==
    [][\A p \in Procs : DeclineStep(p, Answers \ {"y", "Y"}) => NoEffect(p)]_vars

C23_Witness ==
    \E p \in Procs :
        /\ Declined(p, {"n"})
        /\ ~reg.op[p].made
        /\ reg.rpc[p] = "idle"
        /\ Cfg(p)[reg.op[p].name] = "user_script"
        /\ reg.file = Blocks(reg.op[p].before)

\* C25: a registry mutation of the caller process for one name leaves the
\* entry of every other name in the persisted store as it was; stated here
\* for the entries the claim names, those of the problems an earlier
\* register_problem_from_repository of the same process provisioned.
C25_OtherEntriesKept ==
    [][UndisturbedWrite(1) =>
         \A n \in reg.env \ {reg.op[1].name} :
             store'[n] = reg.op[1].before[n]]_vars

\* ================================================================ launch
\* create/start over every shape a section of the persisted store can have:
\* absent, holding run_script_location, or present without it (the section
\* register_problem adds at line 75 before make_run_script has succeeded).
InitLaunch ==
    /\ store \in [SectionNames -> {Absent, "user_script", "noscript"}]
    /\ config = store
    /\ pc = "start"
    /\ req = [entry |-> "none", name |-> None, force_isolation |-> FALSE,
              force_register |-> FALSE, observer |-> FALSE]
    /\ f = NoBlackBox
    /\ pw = [made |-> 0, closes |-> 0]
    /\ peerAlive = FALSE
    /\ sent = <<>>
    /\ outstanding = 0
    /\ obs = [init |-> 0, observe |-> 0, finish |-> 0, args |-> <<>>]
    /\ result = NoResult
    /\ hist = [ops |-> 0, reads |-> 0, asked |-> 0, provRuns |-> 0,
               termCalls |-> 0, termOK |-> 0, termAfter |-> 0,
               callSends |-> 0, callRecvs |-> 0, queries |-> 0,
               okQueries |-> 0, excQueries |-> 0, okAfterExc |-> 0,
               setupOK |-> FALSE, lastReply |-> <<>>,
               registered |-> FALSE, answer |-> None, observer_info |-> None]
    /\ reg = NoRegistry
    /\ ev = NoEval
    /\ child = NoChild

NextLaunch ==
    \/ create_in_process
    \/ create_isolated
    \/ setup_recv

SpecLaunch == InitLaunch /\ [][NextLaunch]_vars

\* the section of the requested name, as the launch loads it, holds
\* run_script_location
LaunchableEntry ==
    /\ req.name \in SectionNames
    /\ store[req.name] \in {"user_script", "repo_script"}

\* C26: create/start construct a ProcessWrapper only for a name whose section
\* in the persisted store holds run_script_location; for every other name,
\* the default section name and a section without run_script_location
\* included, they raise before a process is spawned or a message is sent.
C26_SpawnOnlyWithRunScript ==
    /\ pw.made > 0 => LaunchableEntry
    /\ sent # <<>> => LaunchableEntry
    /\ (req.entry # "none" /\ ~in_process(req.name, req.force_isolation)
          /\ ~LaunchableEntry)
         => /\ pc = "failed"
            /\ result.kind = "raise"
            /\ pw.made = 0
            /\ sent = <<>>
            /\ f = NoBlackBox

C26_Witness ==
    /\ req.entry # "none"
    /\ req.name \in SectionNames
    /\ store[req.name] = "noscript"
    /\ pc = "failed"
    /\ result.val = "KeyError"
    /\ pw.made = 0

====
